---- MODULE Spec2Model ----
(***************************************************************************)
(* Model of the Neptune auto-charger (src/main.py): the retry controller   *)
(* `main`, the orchestrator `try_charge`, the two-phase `begin_charge`,    *)
(* the matcher `find_power_off_record` and the checker `is_port_free`.     *)
(*                                                                         *)
(* Time is counted in minutes (the clock) and milliseconds (timestamps)    *)
(* from midnight, Beijing time, of the civil date EpochDate.               *)
(***************************************************************************)
EXTENDS Integers, Sequences, FiniteSets, TLC

(***************************************************************************)
(* Program constants.                                                      *)
(***************************************************************************)
MAX_RETRIES == 3
RETRY_INTERVAL == 10
MIN_BALANCE == 100
CALL_TIMEOUT_MINUTES == 1   \* ClientTimeout(total=30): a call ends within a minute
POWER_OFF_END_TYPE == 39
POWER_OFF_WINDOW_START_HOUR == 23
POWER_OFF_WINDOW_START_MINUTE == 45
POWER_OFF_WINDOW_END_HOUR == 0
POWER_OFF_WINDOW_END_MINUTE == 15
DEFAULT_DEVTYPEID == 40
DEFAULT_SAFECHARGE == 9
DEFAULT_EFEE == 110
DEFAULT_ECHARGE == 55
DEFAULT_SERVICECHARGE == 55

(***************************************************************************)
(* Bounds of the model.                                                    *)
(***************************************************************************)
MaxLogLen == 1          \* records in one month's charge-log response

MinutesPerDay == 24 * 60
MsPerMinute == 60 * 1000

(***************************************************************************)
(* Python values.  A JSON scalar is None, a string or an integer; a field  *)
(* that is absent from a dict reads as None through dict.get.              *)
(***************************************************************************)
NoneV == [kind |-> "none", s |-> "", n |-> 0]
StrV(str) == [kind |-> "str", s |-> str, n |-> 0]
IntV(i) == [kind |-> "int", s |-> "", n |-> i]

\* bool(v): None, "" and 0 are falsy.
Truthy(v) ==
  CASE v.kind = "none" -> FALSE
    [] v.kind = "str" -> v.s # ""
    [] v.kind = "int" -> v.n # 0

DigitChars == <<"0", "1", "2", "3", "4", "5", "6", "7", "8", "9">>

\* str(n) for a non-negative integer.
RECURSIVE NatToStr(_)
NatToStr(i) ==
  IF i < 10 THEN DigitChars[i + 1]
  ELSE NatToStr(i \div 10) \o DigitChars[(i % 10) + 1]

\* str(v)
PyStr(v) ==
  CASE v.kind = "none" -> "None"
    [] v.kind = "str" -> v.s
    [] v.kind = "int" -> IF v.n < 0 THEN "-" \o NatToStr(0 - v.n) ELSE NatToStr(v.n)

\* A port value: None, an integer, or a string kept as its characters.
NonePort == [kind |-> "none", c |-> <<>>, n |-> 0]
StrPort(chars) == [kind |-> "str", c |-> chars, n |-> 0]
IntPort(i) == [kind |-> "int", c |-> <<>>, n |-> i]

DigitValue(ch) == (CHOOSE i \in 1..10 : DigitChars[i] = ch) - 1
IsDigit(ch) == \E i \in 1..10 : DigitChars[i] = ch

RECURSIVE StripLeft(_)
StripLeft(chars) ==
  IF chars # <<>> /\ Head(chars) = " " THEN StripLeft(Tail(chars)) ELSE chars

RECURSIVE StripRight(_)
StripRight(chars) ==
  IF chars # <<>> /\ chars[Len(chars)] = " "
  THEN StripRight(SubSeq(chars, 1, Len(chars) - 1)) ELSE chars

RECURSIVE DigitsToNat(_, _)
DigitsToNat(chars, acc) ==
  IF chars = <<>> THEN acc
  ELSE DigitsToNat(Tail(chars), acc * 10 + DigitValue(Head(chars)))

\* int(s) for a string: surrounding blanks, an optional sign, decimal digits.
\* ok = FALSE stands for ValueError.
ParseInt(chars) ==
  LET t == StripRight(StripLeft(chars))
      signed == t # <<>> /\ Head(t) \in {"-", "+"}
      digits == IF signed THEN Tail(t) ELSE t
      valid == digits # <<>> /\ \A i \in 1..Len(digits) : IsDigit(digits[i])
  IN IF ~valid THEN [ok |-> FALSE, n |-> 0]
     ELSE [ok |-> TRUE,
           n |-> IF signed /\ Head(t) = "-" THEN 0 - DigitsToNat(digits, 0)
                 ELSE DigitsToNat(digits, 0)]

(***************************************************************************)
(* is_port_free.  The result is "true", "false", or "raise" when an        *)
(* exception other than ValueError/IndexError leaves the function.         *)
(***************************************************************************)
IndexChar(portstatur, port_index) ==
  \* portstatur[port_index] with Python's negative indexing; "" = IndexError
  IF port_index >= 0
  THEN IF port_index < Len(portstatur) THEN portstatur[port_index + 1] ELSE ""
  ELSE IF 0 - port_index <= Len(portstatur)
       THEN portstatur[Len(portstatur) + port_index + 1] ELSE ""

is_port_free(portstatur, port) ==
  IF port.kind = "none" THEN "raise"
  ELSE LET parsed == IF port.kind = "int" THEN [ok |-> TRUE, n |-> port.n]
                     ELSE ParseInt(port.c)
       IN IF ~parsed.ok THEN "false"
          ELSE IF parsed.n >= Len(portstatur) THEN "false"
          ELSE IF IndexChar(portstatur, parsed.n) = "" THEN "false"
          ELSE IF IndexChar(portstatur, parsed.n) = "0" THEN "true" ELSE "false"

(***************************************************************************)
(* Civil calendar in the fixed timezone.  Day number 0 is EpochDate.       *)
(***************************************************************************)
EpochDate == [year |-> 2025, month |-> 12, day |-> 30]

IsLeap(y) == (y % 4 = 0 /\ y % 100 # 0) \/ y % 400 = 0

DaysInMonth(y, m) ==
  IF m = 2 THEN (IF IsLeap(y) THEN 29 ELSE 28)
  ELSE IF m \in {4, 6, 9, 11} THEN 30 ELSE 31

NextDate(d) ==
  IF d.day < DaysInMonth(d.year, d.month) THEN [d EXCEPT !.day = d.day + 1]
  ELSE IF d.month < 12 THEN [year |-> d.year, month |-> d.month + 1, day |-> 1]
  ELSE [year |-> d.year + 1, month |-> 1, day |-> 1]

\* date - timedelta(days=1)
PrevDate(d) ==
  IF d.day > 1 THEN [d EXCEPT !.day = d.day - 1]
  ELSE IF d.month > 1
       THEN [year |-> d.year, month |-> d.month - 1,
             day |-> DaysInMonth(d.year, d.month - 1)]
       ELSE [year |-> d.year - 1, month |-> 12, day |-> 31]

\* d + timedelta(days=n) and d - timedelta(days=n) for n >= 0, by halves.
RECURSIVE AddDays(_, _)
AddDays(d, n) ==
  IF n = 0 THEN d
  ELSE IF n = 1 THEN NextDate(d)
  ELSE CHOOSE r \in {AddDays(m, n - n \div 2) : m \in {AddDays(d, n \div 2)}} : TRUE

RECURSIVE SubDays(_, _)
SubDays(d, n) ==
  IF n = 0 THEN d
  ELSE IF n = 1 THEN PrevDate(d)
  ELSE CHOOSE r \in {SubDays(m, n - n \div 2) : m \in {SubDays(d, n \div 2)}} : TRUE

DateOfDay(dayno) ==
  IF dayno >= 0 THEN AddDays(EpochDate, dayno) ELSE SubDays(EpochDate, 0 - dayno)

\* Day number of a civil date near the epoch.
MaxDayNo == 8
DayNoOf(d) == CHOOSE dayno \in (0 - MaxDayNo)..MaxDayNo : DateOfDay(dayno) = d

\* datetime.now(TZ_BEIJING) at clock minute t: civil date and minute of day.
Now(t) == [date |-> DateOfDay(t \div MinutesPerDay), minute |-> t % MinutesPerDay]

\* datetime(y, m, d, hour, minute, tzinfo=TZ_BEIJING) as an instant in ms.
DateTimeMs(d, hour, minute) ==
  (DayNoOf(d) * MinutesPerDay + hour * 60 + minute) * MsPerMinute

\* strftime("%Y%m"), kept as the number the six digits spell.
Term(d) == d.year * 100 + d.month

\* A variant that stays in the same year: December of this year in January.
LastMonthSameYear(d) ==
  IF d.month = 1 THEN [year |-> d.year, month |-> 12, day |-> 31]
  ELSE PrevDate([d EXCEPT !.day = 1])

\* now.replace(day=1) - timedelta(days=1)
LastMonth(d) == PrevDate([d EXCEPT !.day = 1])

\* A variant that looks back on the first two days only.
MonthsToQueryTwoDays(now) ==
  IF now.date.day < 3 THEN <<Term(now.date), Term(LastMonth(now.date))>>
  ELSE <<Term(now.date)>>

\* The terms try_charge queries, in the order of the calls.
MonthsToQuery(now) ==
  IF now.date.day <= 3 THEN <<Term(now.date), Term(LastMonth(now.date))>>
  ELSE <<Term(now.date)>>

(***************************************************************************)
(* find_power_off_record.  A record is                                     *)
(* [devaddress, devport, endtype, enddt]; the result is the index of the   *)
(* record returned, 0 for None, -1 for an exception.                       *)
(***************************************************************************)
\* A variant that puts the start of the window on today's date.
window_start_today(now, hour, minute) == DateTimeMs(now.date, hour, minute)

\* yesterday at the configured start time, today at the configured end time.
window_start(now, hour, minute) == DateTimeMs(PrevDate(now.date), hour, minute)
window_end(now, hour, minute) == DateTimeMs(now.date, hour, minute)

WindowStart(now) ==
  window_start(now, POWER_OFF_WINDOW_START_HOUR, POWER_OFF_WINDOW_START_MINUTE)

WindowEnd(now) ==
  window_end(now, POWER_OFF_WINDOW_END_HOUR, POWER_OFF_WINDOW_END_MINUTE)

\* A variant of the test that leaves the end of the window out.
RecordMatchesOpenEnd(record, now) ==
  /\ record.endtype = POWER_OFF_END_TYPE
  /\ record.enddt.kind # "none"
  /\ WindowStart(now) <= record.enddt.n
  /\ record.enddt.n < WindowEnd(now)

\* The test the loop body applies to one record.
RecordMatches(record, now) ==
  /\ record.endtype = POWER_OFF_END_TYPE
  /\ record.enddt.kind # "none"
  /\ WindowStart(now) <= record.enddt.n
  /\ record.enddt.n <= WindowEnd(now)

\* enddt / 1000 raises TypeError on a string.
RecordRaises(record) ==
  record.endtype = POWER_OFF_END_TYPE /\ record.enddt.kind = "str"

\* The loop from position i on: the index returned, 0 for None, -1 when the
\* loop body raises.
RECURSIVE ScanFrom(_, _, _)
ScanFrom(logs, i, now) ==
  IF i > Len(logs) THEN 0
  ELSE IF RecordRaises(logs[i]) THEN 0 - 1
  ELSE IF RecordMatches(logs[i], now) THEN i
  ELSE ScanFrom(logs, i + 1, now)

find_power_off_record(logs, now) == ScanFrom(logs, 1, now)

(***************************************************************************)
(* begin_charge: the form parameters of the first call, and of the second. *)
(***************************************************************************)
DictGet(d, key, default) == IF key \in d.keys THEN d[key] ELSE default

\* Variant: the request names the device's first port.
BeginChargeParamsFirstPort(devaddress, port, money, device_info) ==
  [devaddress |-> devaddress,
   port |-> StrPort(<<"0">>),
   money |-> money,
   beforemoney |-> money,
   devtypeid |-> DictGet(device_info, "devtypeid", DEFAULT_DEVTYPEID),
   safeCharge |-> DictGet(device_info, "safeCharge", DEFAULT_SAFECHARGE),
   efee |-> DictGet(device_info, "efee", DEFAULT_EFEE),
   eCharge |-> DictGet(device_info, "eCharge", DEFAULT_ECHARGE),
   serviceCharge |-> DictGet(device_info, "serviceCharge", DEFAULT_SERVICECHARGE),
   msgflag |-> NoneV]

BeginChargeParams(devaddress, port, money, device_info) ==
  [devaddress |-> devaddress,
   port |-> port,
   money |-> money,
   beforemoney |-> money,
   devtypeid |-> DictGet(device_info, "devtypeid", DEFAULT_DEVTYPEID),
   safeCharge |-> DictGet(device_info, "safeCharge", DEFAULT_SAFECHARGE),
   efee |-> DictGet(device_info, "efee", DEFAULT_EFEE),
   eCharge |-> DictGet(device_info, "eCharge", DEFAULT_ECHARGE),
   serviceCharge |-> DictGet(device_info, "serviceCharge", DEFAULT_SERVICECHARGE),
   msgflag |-> NoneV]

WithMsgflag(params, msgflag) == [params EXCEPT !.msgflag = msgflag]

(***************************************************************************)
(* The platform: what each endpoint may answer.  A response is a fault     *)
(* (network failure, timeout, a body that is not the expected JSON) or a   *)
(* JSON object with a success flag and a payload obj.                      *)
(***************************************************************************)
\* getUserInfo payloads: None, or a dict with the keys it carries.
NoneUser == [isNone |-> TRUE, keys |-> {}, readyaccountmoney |-> NoneV]
UserDict(ks, money) == [isNone |-> FALSE, keys |-> ks, readyaccountmoney |-> money]
Balances == {50, 100, 250}
UserObjs ==
  {NoneUser, UserDict({}, NoneV), UserDict({"username"}, NoneV),
   UserDict({"readyaccountmoney"}, NoneV)}
  \cup {UserDict({"readyaccountmoney"}, IntV(b)) : b \in Balances}

UserInfoResponses ==
  {[kind |-> "fault", success |-> FALSE, obj |-> NoneUser],
   [kind |-> "json", success |-> FALSE, obj |-> NoneUser]}
  \cup {[kind |-> "json", success |-> TRUE, obj |-> o] : o \in UserObjs}

\* Charge records.  Day numbers: Dec 31 = 1, Jan 1 = 2, Jan 3 = 4, Jan 4 = 5.
AtMs(dayno, hour, minute) == (dayno * MinutesPerDay + hour * 60 + minute) * MsPerMinute
Rec(dev, prt, et, dt) ==
  [devaddress |-> dev, devport |-> prt, endtype |-> et, enddt |-> dt]
NoRecord == Rec(NoneV, NonePort, 0, NoneV)
RecA == Rec(StrV("A1"), StrPort(<<"2">>), POWER_OFF_END_TYPE, IntV(AtMs(2, 0, 15)))
RecB == Rec(StrV("B2"), NonePort, POWER_OFF_END_TYPE, IntV(AtMs(1, 23, 45)))
RecC == Rec(IntV(7), StrPort(<<"1">>), POWER_OFF_END_TYPE, IntV(AtMs(4, 23, 50)))
RecBad == Rec(StrV("A1"), StrPort(<<"2">>), POWER_OFF_END_TYPE, StrV("x"))
Records == {RecA, RecB, RecC, RecBad}

RECURSIVE SeqsUpTo(_, _)
SeqsUpTo(S, len) ==
  IF len = 0 THEN {<<>>}
  ELSE LET shorter == SeqsUpTo(S, len - 1)
       IN shorter \cup {Append(q, x) : q \in shorter, x \in S}

LogLists == SeqsUpTo(Records, MaxLogLen)

ChargeLogResponses ==
  {[kind |-> "fault", success |-> FALSE, objNull |-> FALSE, obj |-> <<>>],
   [kind |-> "json", success |-> FALSE, objNull |-> FALSE, obj |-> <<>>],
   [kind |-> "json", success |-> TRUE, objNull |-> TRUE, obj |-> <<>>]}
  \cup {[kind |-> "json", success |-> TRUE, objNull |-> FALSE, obj |-> l] : l \in LogLists}

\* getDeviceInfo payloads.
Device(none, ks, ps, dt, sc, ef, ec, sv) ==
  [isNone |-> none, keys |-> ks, portstatur |-> ps, devtypeid |-> dt,
   safeCharge |-> sc, efee |-> ef, eCharge |-> ec, serviceCharge |-> sv]
NoneDevice == Device(TRUE, {}, <<>>, 0, 0, 0, 0, 0)
DeviceObjs ==
  {NoneDevice,
   Device(FALSE, {}, <<>>, 0, 0, 0, 0, 0),
   Device(FALSE, {"devtypeid"}, <<>>, 41, 0, 0, 0, 0),
   Device(FALSE, {"portstatur"}, <<"1", "0", "0">>, 0, 0, 0, 0, 0),
   Device(FALSE, {"portstatur", "devtypeid", "safeCharge", "efee", "eCharge",
                  "serviceCharge"}, <<"0", "1", "0">>, 41, 8, 120, 60, 50)}

DeviceInfoResponses ==
  {[kind |-> "fault", success |-> FALSE, obj |-> NoneDevice],
   [kind |-> "json", success |-> FALSE, obj |-> NoneDevice]}
  \cup {[kind |-> "json", success |-> TRUE, obj |-> o] : o \in DeviceObjs}

\* beginCharge answers: obj is the confirmation token of the first call.
BeginChargeResponses1 ==
  {[kind |-> "fault", success |-> FALSE, obj |-> NoneV],
   [kind |-> "json", success |-> FALSE, obj |-> NoneV],
   [kind |-> "json", success |-> FALSE, obj |-> StrV("tok")],
   [kind |-> "json", success |-> TRUE, obj |-> NoneV],
   [kind |-> "json", success |-> TRUE, obj |-> StrV("")],
   [kind |-> "json", success |-> TRUE, obj |-> StrV("tok")]}

BeginChargeResponses2 ==
  {[kind |-> "fault", success |-> FALSE, obj |-> NoneV],
   [kind |-> "json", success |-> FALSE, obj |-> NoneV],
   [kind |-> "json", success |-> TRUE, obj |-> NoneV]}

\* Day numbers and minutes at which a run may start:
\* Dec 31 23:59, Jan 1 06:05, Jan 4 06:05.
StartInstants ==
  {1 * MinutesPerDay + 23 * 60 + 59, 2 * MinutesPerDay + 6 * 60 + 5,
   5 * MinutesPerDay + 6 * 60 + 5}

(***************************************************************************)
(* The endpoint wrappers: what each returns for a JSON response.           *)
(***************************************************************************)
get_user_info(resp) == IF resp.success THEN resp.obj ELSE NoneUser

get_charge_log(resp) == IF resp.success THEN resp.obj ELSE <<>>

get_device_info(resp) == IF resp.success THEN resp.obj ELSE NoneDevice

\* bool(d) for an optional dict: None and {} are falsy.
DictTruthy(d) == ~d.isNone /\ d.keys # {}

(***************************************************************************)
(* State.                                                                  *)
(***************************************************************************)
VARIABLES
  pc,           \* where main / try_charge stands
  attempt,      \* the loop variable of main, 0 before the loop
  session,      \* "none", "open" or "closed": the attempt's ClientSession
  clock,        \* the wall clock, in minutes
  sleeps,       \* retry sleeps completed in this run
  outcomes,     \* the outcomes of the finished attempts, in order
  lastBalance,  \* the balance the last finished attempt fetched, None if none
  trace,        \* the calls and decisions of the current attempt, in order
  result,       \* what try_charge returned, "none" while it runs
  balance,      \* locals of try_charge
  now,
  logs,
  record,
  devaddress,
  port,
  device_info,
  params        \* local of begin_charge

vars == <<pc, attempt, session, clock, sleeps, outcomes, lastBalance, trace, result, balance,
          now, logs, record, devaddress, port, device_info, params>>

locals == <<balance, now, logs, record, devaddress, port, device_info, params>>

NoParams == BeginChargeParams("", NonePort, 0, NoneDevice)

Init ==
  /\ pc = "NotStarted"
  /\ attempt = 0
  /\ session = "none"
  /\ clock \in StartInstants
  /\ sleeps = 0
  /\ outcomes = <<>>
  /\ lastBalance = NoneV
  /\ trace = <<>>
  /\ result = "none"
  /\ balance = NoneV
  /\ now = 0
  /\ logs = <<>>
  /\ record = NoRecord
  /\ devaddress = ""
  /\ port = NonePort
  /\ device_info = NoneDevice
  /\ params = NoParams

(***************************************************************************)
(* main: configuration, the attempt loop, the retry sleep.                 *)
(***************************************************************************)
\* validate_config() and the early return on configuration errors.
ValidateConfig ==
  /\ pc = "NotStarted"
  /\ \E config_errors \in BOOLEAN :
       pc' = IF config_errors THEN "Aborted" ELSE "LoopHead"
  /\ UNCHANGED <<attempt, session, clock, sleeps, outcomes, lastBalance, trace, result, locals>>

\* The next iteration of the for loop: a fresh session, a fresh try_charge.
BeginAttempt ==
  /\ pc = "LoopHead"
  /\ attempt < MAX_RETRIES
  /\ attempt' = attempt + 1
  /\ session' = "open"
  /\ result' = "none"
  /\ pc' = "GetUserInfo"
  /\ UNCHANGED <<clock, sleeps, outcomes, lastBalance, trace, locals>>

\* try_charge returns res.
Return(res) ==
  /\ result' = res
  /\ pc' = "CloseSession"

\* A variant without `async with`: the session is left open.
CloseSessionLeavesOpen ==
  /\ pc = "CloseSession"
  /\ outcomes' = Append(outcomes, result)
  /\ lastBalance' = balance
  /\ trace' = <<>>
  /\ balance' = NoneV
  /\ now' = 0
  /\ logs' = <<>>
  /\ record' = NoRecord
  /\ devaddress' = ""
  /\ port' = NonePort
  /\ device_info' = NoneDevice
  /\ params' = NoParams
  /\ pc' = "Evaluate"
  /\ UNCHANGED <<attempt, session, clock, sleeps, result>>

\* The end of the `async with` block.  try_charge has returned: its frame,
\* and with it the attempt's locals, is gone.
CloseSession ==
  /\ pc = "CloseSession"
  /\ session' = "closed"
  /\ outcomes' = Append(outcomes, result)
  /\ lastBalance' = balance
  /\ trace' = <<>>
  /\ balance' = NoneV
  /\ now' = 0
  /\ logs' = <<>>
  /\ record' = NoRecord
  /\ devaddress' = ""
  /\ port' = NonePort
  /\ device_info' = NoneDevice
  /\ params' = NoParams
  /\ pc' = "Evaluate"
  /\ UNCHANGED <<attempt, clock, sleeps, result>>

\* Variants of the if/elif chain: a retry after the last attempt too; no stop
\* on SUCCESS; NO_RECORD retried like an error.
AfterAttemptSleepsAlways(res, n) ==
  IF res = "SUCCESS" THEN "Succeeded"
  ELSE IF res = "NO_RECORD" THEN "Skipped"
  ELSE "Sleeping"

AfterAttemptNoStop(res, n) ==
  IF res = "NO_RECORD" THEN "Skipped"
  ELSE IF n < MAX_RETRIES THEN "Sleeping" ELSE "LoopHead"

AfterAttemptRetriesNoRecord(res, n) ==
  IF res = "SUCCESS" THEN "Succeeded"
  ELSE IF n < MAX_RETRIES THEN "Sleeping" ELSE "LoopHead"

\* A variant whose NO_RECORD branch lacks its return: the loop goes on.
AfterAttemptFallsThrough(res, n) ==
  IF res = "SUCCESS" THEN "Succeeded"
  ELSE IF res = "NO_RECORD" THEN "LoopHead"
  ELSE IF n < MAX_RETRIES THEN "Sleeping" ELSE "LoopHead"

\* The if/elif chain on the attempt's result: where main goes next.
AfterAttempt(res, n) ==
  IF res = "SUCCESS" THEN "Succeeded"
  ELSE IF res = "NO_RECORD" THEN "Skipped"
  ELSE IF res \in {"PORT_BUSY", "ERROR"}
       THEN (IF n < MAX_RETRIES THEN "Sleeping" ELSE "LoopHead")
  ELSE "LoopHead"

Evaluate ==
  /\ pc = "Evaluate"
  /\ pc' = AfterAttempt(result, attempt)
  /\ UNCHANGED <<attempt, session, clock, sleeps, outcomes, lastBalance, trace, result, locals>>

\* asyncio.sleep(RETRY_INTERVAL)
Sleep ==
  /\ pc = "Sleeping"
  /\ sleeps' = sleeps + 1
  /\ clock' = clock + RETRY_INTERVAL
  /\ pc' = "LoopHead"
  /\ UNCHANGED <<attempt, session, outcomes, lastBalance, trace, result, locals>>

\* The loop is exhausted: the failure report after it.
ReportFailure ==
  /\ pc = "LoopHead"
  /\ attempt >= MAX_RETRIES
  /\ pc' = "Exhausted"
  /\ UNCHANGED <<attempt, session, clock, sleeps, outcomes, lastBalance, trace, result, locals>>

(***************************************************************************)
(* try_charge, one action per network call or decision.  A fault anywhere  *)
(* is caught by the except clause and returned as ERROR.                   *)
(***************************************************************************)
\* Variant: an exception is taken for "nothing to do".
ExceptClauseNoRecord == "NO_RECORD"

\* The except clause: what try_charge returns when anything in it raised.
ExceptClause == "ERROR"

\* Variant: any positive balance passes.
BalanceSufficientAnyPositive(b) == b.n > 0

\* A variant that turns a balance of exactly 100 away.
BalanceSufficientAbove(b) == b.n > MIN_BALANCE

\* balance < 100 fails the attempt.
BalanceSufficient(b) == b.n >= MIN_BALANCE

\* 1. user info and the balance check.
GetUserInfo ==
  /\ pc = "GetUserInfo"
  /\ session = "open"
  /\ \E resp \in UserInfoResponses :
       LET user_info == get_user_info(resp)
           b == DictGet(user_info, "readyaccountmoney", IntV(0))
       IN /\ trace' = Append(trace, [ev |-> "getUserInfo", resp |-> resp])
          /\ IF resp.kind = "fault" THEN Return(ExceptClause) /\ balance' = balance
             ELSE IF ~DictTruthy(user_info) THEN Return("ERROR") /\ balance' = balance
             ELSE IF b.kind # "int" THEN Return(ExceptClause) /\ balance' = b
             ELSE IF ~BalanceSufficient(b) THEN Return("ERROR") /\ balance' = b
             ELSE /\ balance' = b
                  /\ pc' = "GetChargeLogThis"
                  /\ result' = result
  /\ UNCHANGED <<attempt, session, clock, sleeps, outcomes, lastBalance,
                 now, logs, record, devaddress, port, device_info, params>>

\* One get_charge_log call and logs.extend of what it returns.
FetchLog(term, next) ==
  \E resp \in ChargeLogResponses :
    /\ trace' = Append(trace, [ev |-> "getChargeLog", term |-> term, resp |-> resp])
    /\ IF resp.kind = "fault" \/ (resp.success /\ resp.objNull)
       THEN Return(ExceptClause) /\ logs' = logs
       ELSE /\ logs' = logs \o get_charge_log(resp)
            /\ pc' = next
            /\ result' = result

\* 2. the clock read and the current month's history.  The call may take the
\* clock into the next minute before the matcher reads it again.
GetChargeLogThis ==
  /\ pc = "GetChargeLogThis"
  /\ session = "open"
  /\ now' = clock
  /\ \E elapsed \in 0..CALL_TIMEOUT_MINUTES : clock' = clock + elapsed
  /\ FetchLog(Term(Now(clock).date),
              IF Now(clock).date.day <= 3 THEN "GetChargeLogLast" ELSE "FindRecord")
  /\ UNCHANGED <<attempt, session, sleeps, outcomes, lastBalance, balance,
                 record, devaddress, port, device_info, params>>

\* the previous month's history, in the first three days of a month.
GetChargeLogLast ==
  /\ pc = "GetChargeLogLast"
  /\ session = "open"
  /\ FetchLog(Term(LastMonth(Now(now).date)), "FindRecord")
  /\ UNCHANGED <<attempt, session, clock, sleeps, outcomes, lastBalance, balance, now,
                 record, devaddress, port, device_info, params>>

\* 3. the empty-history check and the matcher.
FindRecord ==
  /\ pc = "FindRecord"
  /\ IF logs = <<>>
     THEN /\ Return("NO_RECORD")
          /\ UNCHANGED <<trace, record, devaddress, port>>
     ELSE LET found == find_power_off_record(logs, Now(clock))
          IN /\ trace' = Append(trace, [ev |-> "find_power_off_record",
                                        logs |-> logs, now |-> clock, ret |-> found])
             /\ IF found < 0
                THEN Return(ExceptClause) /\ UNCHANGED <<record, devaddress, port>>
                ELSE IF found = 0
                THEN Return("NO_RECORD") /\ UNCHANGED <<record, devaddress, port>>
                ELSE /\ record' = logs[found]
                     /\ devaddress' = PyStr(logs[found].devaddress)
                     /\ port' = logs[found].devport
                     /\ pc' = "GetDeviceInfo"
                     /\ result' = result
  /\ UNCHANGED <<attempt, session, clock, sleeps, outcomes, lastBalance, balance, now, logs,
                 device_info, params>>

\* 4. the device's status.
GetDeviceInfo ==
  /\ pc = "GetDeviceInfo"
  /\ session = "open"
  /\ \E resp \in DeviceInfoResponses :
       /\ trace' = Append(trace, [ev |-> "getDeviceInfo", devaddress |-> devaddress,
                                  resp |-> resp])
       /\ IF resp.kind = "fault"
          THEN Return(ExceptClause) /\ device_info' = device_info
          ELSE IF ~DictTruthy(get_device_info(resp))
          THEN Return("ERROR") /\ device_info' = device_info
          ELSE /\ device_info' = get_device_info(resp)
               /\ pc' = "CheckPort"
               /\ result' = result
  /\ UNCHANGED <<attempt, session, clock, sleeps, outcomes, lastBalance, balance, now, logs,
                 record, devaddress, port, params>>

\* 5. the port check.
CheckPort ==
  /\ pc = "CheckPort"
  /\ LET portstatur == DictGet(device_info, "portstatur", <<>>)
         free == is_port_free(portstatur, port)
     IN /\ trace' = Append(trace, [ev |-> "is_port_free", portstatur |-> portstatur,
                                   port |-> port, ret |-> free])
        /\ IF free = "raise" THEN Return(ExceptClause)
           ELSE IF free = "false" THEN Return("PORT_BUSY")
           ELSE pc' = "BeginCharge1" /\ result' = result
  /\ UNCHANGED <<attempt, session, clock, sleeps, outcomes, lastBalance, locals>>

\* Variant: the msgflag is not checked.
FirstPhaseNoTokenCheck(resp) ==
  IF resp.kind = "fault" THEN "raise"
  ELSE IF ~resp.success THEN "rejected"
  ELSE "confirm"

\* begin_charge after its first response: "raise", "rejected" (success is
\* false), "no_token" (msgflag is empty) or "confirm" (go on to the second call).
FirstPhase(resp) ==
  IF resp.kind = "fault" THEN "raise"
  ELSE IF ~resp.success THEN "rejected"
  ELSE IF ~Truthy(resp.obj) THEN "no_token"
  ELSE "confirm"

\* Variant: the balance of the previous attempt is reused when there is one.
ChargeAmountStale == IF lastBalance.kind = "int" THEN lastBalance.n ELSE balance.n

\* The amount try_charge passes to begin_charge.
ChargeAmount == balance.n

\* 6. begin_charge, first call: ask for the msgflag.
BeginCharge1 ==
  /\ pc = "BeginCharge1"
  /\ session = "open"
  /\ \E resp \in BeginChargeResponses1 :
       LET p == BeginChargeParams(devaddress, port, ChargeAmount, device_info)
       IN /\ trace' = Append(trace, [ev |-> "beginCharge", params |-> p, resp |-> resp])
          /\ IF FirstPhase(resp) = "confirm"
             THEN /\ params' = WithMsgflag(p, resp.obj)
                  /\ pc' = "BeginCharge2"
                  /\ result' = result
             ELSE /\ params' = p
                  /\ Return(IF FirstPhase(resp) = "raise" THEN ExceptClause ELSE "ERROR")
  /\ UNCHANGED <<attempt, session, clock, sleeps, outcomes, lastBalance, balance, now, logs,
                 record, devaddress, port, device_info>>

\* Variant: any JSON answer to the second call counts as success.
FinalOutcomeIgnoresFlag(resp) ==
  IF resp.kind = "fault" THEN ExceptClause ELSE "SUCCESS"

\* What try_charge returns for the response of the second call.
FinalOutcome(resp) ==
  IF resp.kind = "fault" THEN ExceptClause
  ELSE IF resp.success THEN "SUCCESS" ELSE "ERROR"

\* 6. begin_charge, second call: confirm with the msgflag.
BeginCharge2 ==
  /\ pc = "BeginCharge2"
  /\ session = "open"
  /\ \E resp \in BeginChargeResponses2 :
       /\ trace' = Append(trace, [ev |-> "beginCharge", params |-> params, resp |-> resp])
       /\ Return(FinalOutcome(resp))
  /\ UNCHANGED <<attempt, session, clock, sleeps, outcomes, lastBalance, locals>>

Next ==
  \/ ValidateConfig
  \/ BeginAttempt
  \/ GetUserInfo
  \/ GetChargeLogThis
  \/ GetChargeLogLast
  \/ FindRecord
  \/ GetDeviceInfo
  \/ CheckPort
  \/ BeginCharge1
  \/ BeginCharge2
  \/ CloseSession
  \/ Evaluate
  \/ Sleep
  \/ ReportFailure

Spec == Init /\ [][Next]_vars

\* main is one coroutine run to completion by asyncio.run: the step it is at
\* is eventually taken.  Every network call is bounded by the client
\* timeout (it returns or faults), and asyncio.sleep returns.
FairSpec ==
  /\ Spec
  /\ WF_vars(ValidateConfig)
  /\ WF_vars(BeginAttempt)
  /\ WF_vars(GetUserInfo)
  /\ WF_vars(GetChargeLogThis)
  /\ WF_vars(GetChargeLogLast)
  /\ WF_vars(FindRecord)
  /\ WF_vars(GetDeviceInfo)
  /\ WF_vars(CheckPort)
  /\ WF_vars(BeginCharge1)
  /\ WF_vars(BeginCharge2)
  /\ WF_vars(CloseSession)
  /\ WF_vars(Evaluate)
  /\ WF_vars(Sleep)
  /\ WF_vars(ReportFailure)

(***************************************************************************)
(* The pure functions, each applied once to arguments of its own.  The     *)
(* initial state names the function (pc) and the instant of the call; the  *)
(* action draws the arguments, applies the function and records the call   *)
(* in trace.                                                               *)
(***************************************************************************)
MaxStatusLen == 2
StatusChars == {"0", "1", "2"}
PortStatusStrings == SeqsUpTo(StatusChars, MaxStatusLen)
PortValues ==
  {NonePort, IntPort(1)} \cup
  {StrPort(c) : c \in {<<"0">>, <<"1">>, <<"2">>, <<"1", "0">>, <<" ", "1">>,
                        <<"+", "1">>, <<"-", "1">>, <<"-", "2">>, <<"-", "3">>,
                        <<"x">>, <<"1", "x">>, <<>>}}

\* Charge records around the window of day 2 (Jan 1): on its two ends, one
\* millisecond and one minute outside them, inside it, of another end type,
\* and still charging (no end time).
MaxMatchLen == 3
OTHER_END_TYPE == 1
MRec(name, et, dt) == Rec(StrV(name), StrPort(<<"0">>), et, dt)
MatchRecords ==
  {MRec("start", POWER_OFF_END_TYPE, IntV(AtMs(1, 23, 45))),
   MRec("end", POWER_OFF_END_TYPE, IntV(AtMs(2, 0, 15))),
   MRec("ms-early", POWER_OFF_END_TYPE, IntV(AtMs(1, 23, 45) - 1)),
   MRec("ms-late", POWER_OFF_END_TYPE, IntV(AtMs(2, 0, 15) + 1)),
   MRec("min-early", POWER_OFF_END_TYPE, IntV(AtMs(1, 23, 44))),
   MRec("min-late", POWER_OFF_END_TYPE, IntV(AtMs(2, 0, 16))),
   MRec("other", OTHER_END_TYPE, IntV(AtMs(2, 0, 0))),
   MRec("open", POWER_OFF_END_TYPE, NoneV)}
MatchLists == SeqsUpTo(MatchRecords, MaxMatchLen)
MatcherInstants ==
  {1 * MinutesPerDay + 12 * 60, 2 * MinutesPerDay, 2 * MinutesPerDay + 6 * 60 + 5,
   2 * MinutesPerDay + 23 * 60 + 59, 3 * MinutesPerDay + 6 * 60 + 5}

\* The history block of try_charge on its own: the terms queried at instant
\* t and the list built from what the two calls deliver.  Instants of more
\* than two years, a leap February among them.
MaxHistoryDay == 800
HistoryInstants == {d * MinutesPerDay + 6 * 60 + 5 : d \in 0..MaxHistoryDay}
HistoryAnswers == {<<>>, <<RecA>>, <<RecB, RecC>>}
fetch_history(t, this, last) ==
  LET terms == MonthsToQuery(Now(t))
  IN [terms |-> terms,
      logs |-> IF Len(terms) = 2 THEN this \o last ELSE this]

\* The window on its own, for configured times of day that datetime()
\* accepts (hours 0..23, minutes 0..59) and instants on the days around the
\* turn of the year.
ConfigHours == {0, 12, 23}
ConfigMinutes == {0, 15, 45, 59}
WindowInstants ==
  {d * MinutesPerDay + m : d \in 1..MaxDayNo, m \in {0, 6 * 60 + 5, 23 * 60 + 59}}

InitPure ==
  /\ \/ pc = "is_port_free" /\ clock = 0
     \/ pc = "window" /\ clock \in WindowInstants
     \/ pc = "find_power_off_record" /\ clock \in MatcherInstants
     \/ pc = "fetch_history" /\ clock \in HistoryInstants
  /\ attempt = 0
  /\ session = "none"
  /\ sleeps = 0
  /\ outcomes = <<>>
  /\ lastBalance = NoneV
  /\ trace = <<>>
  /\ result = "none"
  /\ balance = NoneV
  /\ now = 0
  /\ logs = <<>>
  /\ record = NoRecord
  /\ devaddress = ""
  /\ port = NonePort
  /\ device_info = NoneDevice
  /\ params = NoParams

Call_is_port_free ==
  /\ pc = "is_port_free"
  /\ \E status \in PortStatusStrings, p \in PortValues :
       trace' = <<[ev |-> "is_port_free", portstatur |-> status, port |-> p,
                   ret |-> is_port_free(status, p)]>>
  /\ pc' = "returned"
  /\ UNCHANGED <<attempt, session, clock, sleeps, outcomes, lastBalance, result, locals>>

Call_find_power_off_record ==
  /\ pc = "find_power_off_record"
  /\ \E list \in MatchLists :
       trace' = <<[ev |-> "find_power_off_record", logs |-> list, now |-> clock,
                   ret |-> find_power_off_record(list, Now(clock))]>>
  /\ pc' = "returned"
  /\ UNCHANGED <<attempt, session, clock, sleeps, outcomes, lastBalance, result, locals>>

Call_fetch_history ==
  /\ pc = "fetch_history"
  /\ \E this \in HistoryAnswers, last \in HistoryAnswers :
       LET h == fetch_history(clock, this, last)
       IN trace' = <<[ev |-> "fetch_history", now |-> clock, this |-> this,
                      last |-> last, terms |-> h.terms, logs |-> h.logs]>>
  /\ pc' = "returned"
  /\ UNCHANGED <<attempt, session, clock, sleeps, outcomes, lastBalance, result, locals>>

Call_window ==
  /\ pc = "window"
  /\ \E sh \in ConfigHours, sm \in ConfigMinutes, eh \in ConfigHours, em \in ConfigMinutes :
       trace' = <<[ev |-> "window", now |-> clock,
                   sh |-> sh, sm |-> sm, eh |-> eh, em |-> em,
                   start |-> window_start(Now(clock), sh, sm),
                   end |-> window_end(Now(clock), eh, em)]>>
  /\ pc' = "returned"
  /\ UNCHANGED <<attempt, session, clock, sleeps, outcomes, lastBalance, result, locals>>

NextPure ==
  \/ Call_is_port_free
  \/ Call_find_power_off_record
  \/ Call_fetch_history
  \/ Call_window

SpecPure == InitPure /\ [][NextPure]_vars

TypeOK ==
  /\ pc \in {"NotStarted", "Aborted", "LoopHead", "GetUserInfo", "GetChargeLogThis",
             "GetChargeLogLast", "FindRecord", "GetDeviceInfo", "CheckPort",
             "BeginCharge1", "BeginCharge2", "CloseSession", "Evaluate", "Sleeping",
             "Succeeded", "Skipped", "Exhausted"}
  /\ attempt \in 0..MAX_RETRIES
  /\ session \in {"none", "open", "closed"}
  /\ result \in {"none", "SUCCESS", "NO_RECORD", "PORT_BUSY", "ERROR"}

(***************************************************************************)
(* Properties.                                                             *)
(***************************************************************************)
Retriable == {"PORT_BUSY", "ERROR"}
AttemptPcs == {"GetUserInfo", "GetChargeLogThis", "GetChargeLogLast", "FindRecord",
               "GetDeviceInfo", "CheckPort", "BeginCharge1", "BeginCharge2",
               "CloseSession"}
AllRetriable == \A i \in DOMAIN outcomes : outcomes[i] \in Retriable

\* C1: the orchestrator is invoked at most MAX_RETRIES times; a retriable
\* outcome of attempt n < 3 is followed by exactly one sleep and attempt n+1,
\* one of attempt 3 by no sleep; Exhausted is reached exactly after three
\* attempts that each yielded PortBusy or Error, with exactly two sleeps.
C1_BoundedRetry ==
  /\ attempt <= MAX_RETRIES
  /\ Len(outcomes) <= attempt
  /\ pc \in AttemptPcs \cup {"Evaluate"} => attempt >= 1 /\ sleeps = attempt - 1
  /\ pc \in AttemptPcs => Len(outcomes) = attempt - 1 /\ AllRetriable
  /\ pc = "Evaluate" => Len(outcomes) = attempt /\ outcomes[attempt] = result
  /\ pc = "Sleeping" =>
       /\ attempt < MAX_RETRIES
       /\ sleeps = attempt - 1
       /\ Len(outcomes) = attempt
       /\ AllRetriable
  /\ pc = "LoopHead" =>
       /\ Len(outcomes) = attempt
       /\ AllRetriable
       /\ IF attempt = 0 THEN sleeps = 0
          ELSE IF attempt < MAX_RETRIES THEN sleeps = attempt
          ELSE sleeps = MAX_RETRIES - 1
  /\ pc = "Exhausted" =>
       /\ attempt = MAX_RETRIES
       /\ Len(outcomes) = MAX_RETRIES
       /\ AllRetriable
       /\ sleeps = MAX_RETRIES - 1
  /\ (Len(outcomes) = MAX_RETRIES /\ AllRetriable) =>
       pc \in {"Evaluate", "LoopHead", "Exhausted"}

C1_Witness ==
  /\ pc = "Exhausted"
  /\ outcomes = <<"PORT_BUSY", "ERROR", "PORT_BUSY">>
  /\ sleeps = 2

SuccessSeen ==
  result = "SUCCESS" \/ \E i \in DOMAIN outcomes : outcomes[i] = "SUCCESS"

\* C2: once an attempt has yielded Success, the controller goes to Succeeded
\* and there is no further attempt, no network call and no sleep.
C2_StopOnSuccess ==
  [][SuccessSeen =>
       /\ attempt' = attempt
       /\ sleeps' = sleeps
       /\ Len(trace') <= Len(trace)
       /\ session' # "open" \/ session = "open"
       /\ pc' \in {"CloseSession", "Evaluate", "Succeeded"}]_vars

C2_Witness ==
  /\ pc = "Succeeded"
  /\ attempt < MAX_RETRIES
  /\ outcomes[attempt] = "SUCCESS"

NoRecordSeen ==
  result = "NO_RECORD" \/ \E i \in DOMAIN outcomes : outcomes[i] = "NO_RECORD"

\* C3: once an attempt has yielded NoRecordFound the controller goes to
\* Skipped: no sleep, no further attempt, no failure report; when that was
\* the first attempt the run has exactly one attempt and no sleep.
C3_SkipOnNoRecord ==
  [][NoRecordSeen' =>
       /\ pc' \in {"CloseSession", "Evaluate", "Skipped"}
       /\ sleeps' = attempt' - 1
       /\ (Len(outcomes') >= 1 /\ outcomes'[1] = "NO_RECORD"
             => attempt' = 1 /\ sleeps' = 0)
       /\ (NoRecordSeen =>
             /\ attempt' = attempt
             /\ sleeps' = sleeps
             /\ Len(trace') <= Len(trace))]_vars

C3_Witness ==
  /\ pc = "Skipped"
  /\ attempt = 1
  /\ sleeps = 0
  /\ outcomes = <<"NO_RECORD">>

(***************************************************************************)
(* Reading the trace of the current attempt.                               *)
(***************************************************************************)
EvIdx(name) == {i \in DOMAIN trace : trace[i].ev = name}
BeginIdx == EvIdx("beginCharge")
NetworkEvents == {"getUserInfo", "getChargeLog", "getDeviceInfo", "beginCharge"}

\* The records a getChargeLog event delivered.
Delivered(e) ==
  IF e.resp.kind = "json" /\ e.resp.success /\ ~e.resp.objNull THEN e.resp.obj ELSE <<>>

\* The concatenation of what the getChargeLog events before position i delivered.
RECURSIVE FetchedBefore(_)
FetchedBefore(i) ==
  IF i <= 1 THEN <<>>
  ELSE IF trace[i - 1].ev = "getChargeLog"
       THEN FetchedBefore(i - 1) \o Delivered(trace[i - 1])
       ELSE FetchedBefore(i - 1)

\* A getUserInfo event that delivered a balance of at least 100.
BalanceFetchedOk(e) ==
  /\ e.ev = "getUserInfo"
  /\ e.resp.kind = "json" /\ e.resp.success /\ ~e.resp.obj.isNone
  /\ "readyaccountmoney" \in e.resp.obj.keys
  /\ e.resp.obj.readyaccountmoney.kind = "int"
  /\ e.resp.obj.readyaccountmoney.n >= 100

\* A matcher event that returned a record of a non-empty fetched history.
Matched(m) ==
  /\ trace[m].ev = "find_power_off_record"
  /\ trace[m].logs # <<>>
  /\ trace[m].logs = FetchedBefore(m)
  /\ \E l \in 1..(m - 1) : trace[l].ev = "getChargeLog"
  /\ trace[m].ret > 0

MatchedRecord(m) == trace[m].logs[trace[m].ret]

\* A getDeviceInfo event that delivered the status of the matched record's device.
DeviceFetchedOk(d, m) ==
  /\ trace[d].ev = "getDeviceInfo"
  /\ trace[d].resp.kind = "json" /\ trace[d].resp.success
  /\ ~trace[d].resp.obj.isNone /\ trace[d].resp.obj.keys # {}
  /\ trace[d].devaddress = PyStr(MatchedRecord(m).devaddress)

\* A port check of the matched record's port on that status, answered free.
PortFoundFree(c, d, m) ==
  /\ trace[c].ev = "is_port_free"
  /\ trace[c].ret = "true"
  /\ trace[c].port = MatchedRecord(m).devport
  /\ trace[c].portstatur =
       (IF "portstatur" \in trace[d].resp.obj.keys
        THEN trace[d].resp.obj.portstatur ELSE <<>>)

\* C4: a begin-charge request is preceded, in the same attempt and in this
\* order, by a fetched balance >= 100, a fetched non-empty history, a match,
\* a successful device-status fetch for the matched device and a port check
\* that found the matched port free.
C4_ChecksPrecedeBeginCharge ==
  \A i \in BeginIdx :
    \E u \in 1..(i - 1) :
      /\ BalanceFetchedOk(trace[u])
      /\ \E m \in (u + 1)..(i - 1) :
           /\ Matched(m)
           /\ \A l \in EvIdx("getChargeLog") : u < l /\ l < m
           /\ \E d \in (m + 1)..(i - 1) :
                /\ DeviceFetchedOk(d, m)
                /\ \E c \in (d + 1)..(i - 1) : PortFoundFree(c, d, m)

C4_Witness ==
  /\ pc = "BeginCharge2"
  /\ Cardinality(BeginIdx) = 1
  /\ Cardinality(EvIdx("getChargeLog")) = 2

\* C5: both begin-charge requests of an attempt name the device address and
\* the port of the record matched in that attempt, the address whose status
\* was fetched and the port the check found free.
C5_SameDeviceAndPort ==
  \A i \in BeginIdx :
    /\ Cardinality(EvIdx("find_power_off_record")) = 1
    /\ Cardinality(EvIdx("getDeviceInfo")) = 1
    /\ Cardinality(EvIdx("is_port_free")) = 1
    /\ \A m \in EvIdx("find_power_off_record") :
         /\ m < i
         /\ trace[m].ret > 0
         /\ trace[i].params.devaddress = PyStr(MatchedRecord(m).devaddress)
         /\ trace[i].params.port = MatchedRecord(m).devport
    /\ \A d \in EvIdx("getDeviceInfo") :
         d < i /\ trace[i].params.devaddress = trace[d].devaddress
    /\ \A c \in EvIdx("is_port_free") :
         c < i /\ trace[c].ret = "true" /\ trace[i].params.port = trace[c].port

C5_Witness ==
  /\ Cardinality(BeginIdx) = 2
  /\ record.devaddress = IntV(7)
  /\ \A i \in BeginIdx : trace[i].params.devaddress = "7"

\* C6: every attempt starts by fetching the balance, and the money and
\* beforemoney of its begin-charge requests are exactly the balance that
\* this attempt fetched.
C6_FullFreshBalance ==
  /\ pc \in (AttemptPcs \ {"GetUserInfo"}) =>
       /\ Len(trace) >= 1
       /\ EvIdx("getUserInfo") = {1}
  /\ \A i \in BeginIdx :
       /\ BalanceFetchedOk(trace[1])
       /\ trace[i].params.money = trace[1].resp.obj.readyaccountmoney.n
       /\ trace[i].params.beforemoney = trace[1].resp.obj.readyaccountmoney.n

C6_Witness ==
  /\ attempt >= 2
  /\ Cardinality(BeginIdx) = 2
  /\ lastBalance.kind = "int"
  /\ \A i \in BeginIdx : trace[i].params.money # lastBalance.n

\* A first response that grants a confirmation token.
TokenGranted(resp) ==
  resp.kind = "json" /\ resp.success /\ resp.obj.kind = "str" /\ resp.obj.s # ""

\* C7: the finalizing call is issued only after a first call that succeeded
\* with a non-empty token, and carries the first call's parameters plus that
\* token; after a first call without it there is no finalizing call and the
\* outcome is Error.
C7_TwoPhase ==
  /\ Cardinality(BeginIdx) <= 2
  /\ \A i, j \in BeginIdx :
       i < j =>
         /\ TokenGranted(trace[i].resp)
         /\ trace[i].params.msgflag = NoneV
         /\ trace[j].params = [trace[i].params EXCEPT !.msgflag = trace[i].resp.obj]
  /\ \A i \in BeginIdx :
       ((\A j \in BeginIdx : i <= j) /\ ~TokenGranted(trace[i].resp)) =>
         /\ BeginIdx = {i}
         /\ pc = "CloseSession"
         /\ result = "ERROR"

C7_Witness ==
  /\ Cardinality(BeginIdx) = 2
  /\ trace[Len(trace)].params.msgflag = StrV("tok")
  /\ trace[Len(trace)].params.devtypeid = 41

\* The finalizing call was issued and its response reported success.
FinalCallSucceeded ==
  /\ Cardinality(BeginIdx) = 2
  /\ trace[Len(trace)].ev = "beginCharge"
  /\ trace[Len(trace)].resp.kind = "json"
  /\ trace[Len(trace)].resp.success

\* C8: an attempt's outcome is Success exactly when its finalizing call was
\* issued and reported success; a finalizing call that reports non-success
\* gives Error.
C8_SuccessIffFinalized ==
  /\ pc \in (AttemptPcs \ {"CloseSession"}) => result = "none"
  /\ pc = "CloseSession" =>
       /\ result = "SUCCESS" <=> FinalCallSucceeded
       /\ (Cardinality(BeginIdx) = 2 /\ ~FinalCallSucceeded) => result = "ERROR"

C8_Witness ==
  /\ pc = "CloseSession"
  /\ result = "SUCCESS"
  /\ FinalCallSucceeded

\* An endpoint answered with success = false.
OperationFailed(e) ==
  e.ev \in NetworkEvents /\ e.resp.kind = "json" /\ ~e.resp.success

\* C9: when an endpoint of the attempt reported non-success the outcome is
\* Error, and NoRecordFound comes only from a history that was delivered.
C9_FailureIsError ==
  pc = "CloseSession" =>
    /\ (\E i \in DOMAIN trace : OperationFailed(trace[i])) => result = "ERROR"
    /\ result = "NO_RECORD" =>
         /\ EvIdx("getChargeLog") # {}
         /\ \A l \in EvIdx("getChargeLog") :
              trace[l].resp.kind = "json" /\ trace[l].resp.success

\* Something raised at this event: a network fault, a value that cannot be
\* parsed, an exception in the matcher or in the port checker.
Faulted(e) ==
  \/ e.ev \in NetworkEvents /\ e.resp.kind = "fault"
  \/ /\ e.ev = "getUserInfo"
     /\ e.resp.kind = "json" /\ e.resp.success
     /\ "readyaccountmoney" \in e.resp.obj.keys
     /\ e.resp.obj.readyaccountmoney.kind # "int"
  \/ e.ev = "getChargeLog" /\ e.resp.kind = "json" /\ e.resp.success /\ e.resp.objNull
  \/ e.ev = "find_power_off_record" /\ e.ret < 0
  \/ e.ev = "is_port_free" /\ e.ret = "raise"

\* C10: a fault in an attempt ends it with the outcome Error; an attempt in
\* progress holds its open session (the one guard of its next step), ends
\* with exactly one of the four outcomes, and the controller acts on that
\* outcome by its usual rule.
C10_FaultsBecomeError ==
  /\ \A i \in DOMAIN trace :
       Faulted(trace[i]) =>
         /\ i = Len(trace)
         /\ pc = "CloseSession"
         /\ result = "ERROR"
  /\ pc \in AttemptPcs => session = "open"
  /\ pc = "CloseSession" => result \in {"SUCCESS", "NO_RECORD", "PORT_BUSY", "ERROR"}
  /\ pc \in {"Evaluate", "Sleeping", "Succeeded", "Skipped", "Exhausted"} =>
       /\ Len(outcomes) = attempt
       /\ outcomes[attempt] \in {"SUCCESS", "NO_RECORD", "PORT_BUSY", "ERROR"}
       /\ pc = "Succeeded" => outcomes[attempt] = "SUCCESS"
       /\ pc = "Skipped" => outcomes[attempt] = "NO_RECORD"
       /\ pc \in {"Sleeping", "Exhausted"} => outcomes[attempt] \in Retriable

C10_Witness ==
  /\ pc = "CloseSession"
  /\ result = "ERROR"
  /\ trace[Len(trace)].ev = "is_port_free"
  /\ Faulted(trace[Len(trace)])


\* C11: with a valid configuration every run eventually reaches one of the
\* terminal states Succeeded, Skipped or Exhausted and stays there for ever;
\* a terminal state is never left, and the failure report (the step into
\* Exhausted) is made only after MAX_RETRIES attempts that all ended in
\* PORT_BUSY or ERROR, never after a SUCCESS or a NO_RECORD.
TerminalPcs == {"Succeeded", "Skipped", "Exhausted"}
C11_Terminates ==
  /\ (pc = "LoopHead") ~> (pc \in TerminalPcs)
  /\ [][/\ pc \in TerminalPcs => pc' = pc
        /\ pc' = "Exhausted" =>
             /\ Len(outcomes') = MAX_RETRIES
             /\ \A i \in DOMAIN outcomes' : outcomes'[i] \in Retriable]_vars

\* A run that ended after three attempts of three different kinds of failure.
C11_Witness ==
  /\ pc = "Exhausted"
  /\ outcomes = <<"ERROR", "PORT_BUSY", "ERROR">>
  /\ sleeps = MAX_RETRIES - 1

\* C12: for every status encoding and every port index given as a string,
\* is_port_free answers true exactly when the index parses as an integer
\* that is not negative and is smaller than the length of the encoding, and
\* the character at that index is "0"; in every other case (not a number, a
\* negative number, an index past the end, another status character) it
\* answers false.
PortCalls == {i \in DOMAIN trace : trace[i].ev = "is_port_free"}
C12_PortFreeExactly ==
  \A i \in PortCalls :
    LET e == trace[i]
        parsed == ParseInt(e.port.c)
        inRange == parsed.ok /\ parsed.n >= 0 /\ parsed.n < Len(e.portstatur)
        free == IF inRange THEN e.portstatur[parsed.n + 1] = "0" ELSE FALSE
    IN e.port.kind = "str" => e.ret = (IF free THEN "true" ELSE "false")

\* C13: is_port_free never raises: whatever the port value (a missing
\* devport included) and whatever the status encoding (the empty one
\* included), a call returns, and it returns false when the port is missing
\* or the encoding is empty.
C13_PortCheckNeverRaises ==
  \A i \in PortCalls :
    /\ trace[i].ret # "raise"
    /\ (trace[i].port.kind = "none" \/ trace[i].portstatur = <<>>) =>
         trace[i].ret = "false"

\* C14: for every sequence of records, the matcher returns a record exactly
\* when some record has the power-off end type, an end time that is not
\* null, and that end time t within the window, s <= t <= e with both ends
\* included (s is yesterday 23:45, e is today 00:15); the record returned is
\* the first such record in the order of the input, and nothing is returned
\* for the empty sequence.  The records are charge records: their end time
\* is a number or null.
MatcherCalls == {i \in DOMAIN trace : trace[i].ev = "find_power_off_record"}
Qualifies(r, t) ==
  LET today == t \div MinutesPerDay
  IN /\ r.endtype = POWER_OFF_END_TYPE
     /\ r.enddt.kind = "int"
     /\ AtMs(today - 1, POWER_OFF_WINDOW_START_HOUR, POWER_OFF_WINDOW_START_MINUTE)
          <= r.enddt.n
     /\ r.enddt.n
          <= AtMs(today, POWER_OFF_WINDOW_END_HOUR, POWER_OFF_WINDOW_END_MINUTE)
C14_FirstInWindow ==
  \A i \in MatcherCalls :
    LET e == trace[i]
        q == {j \in 1..Len(e.logs) : Qualifies(e.logs[j], e.now)}
    IN (\A j \in 1..Len(e.logs) : e.logs[j].enddt.kind # "str") =>
         /\ q = {} => e.ret = 0
         /\ q # {} => e.ret \in q /\ \A j \in q : e.ret <= j

\* A record one minute before the window is passed over, and of two records
\* on the two ends of the window the earlier in the list is returned.
C14_Witness ==
  \E i \in MatcherCalls :
    /\ Len(trace[i].logs) = 3
    /\ trace[i].logs[1].enddt = IntV(AtMs(1, 23, 44))
    /\ trace[i].logs[2].enddt = IntV(AtMs(2, 0, 15))
    /\ trace[i].logs[3].enddt = IntV(AtMs(1, 23, 45))
    /\ trace[i].ret = 2

\* C15: an attempt whose balance is below 100, or whose user information
\* lacks the balance field, ends in ERROR right after the user-information
\* call, with no charge-log, device-information or begin-charge call made; a
\* balance of exactly 100 passes the check; and the controller treats that
\* ERROR like any other, going to the retry sleep before the third attempt
\* and to the end of the loop after it.
LowBalanceEvent(e) ==
  /\ e.ev = "getUserInfo"
  /\ e.resp.kind = "json" /\ e.resp.success
  /\ ~e.resp.obj.isNone /\ e.resp.obj.keys # {}
  /\ \/ "readyaccountmoney" \notin e.resp.obj.keys
     \/ /\ e.resp.obj.readyaccountmoney.kind = "int"
        /\ e.resp.obj.readyaccountmoney.n < 100
ThresholdBalanceEvent(e) ==
  /\ e.ev = "getUserInfo"
  /\ e.resp.kind = "json" /\ e.resp.success /\ ~e.resp.obj.isNone
  /\ "readyaccountmoney" \in e.resp.obj.keys
  /\ e.resp.obj.readyaccountmoney = IntV(100)
LowBalance(b) == b.kind = "int" /\ b.n < 100
C15_LowBalanceIsError ==
  [][/\ (trace' # <<>> /\ LowBalanceEvent(trace'[1])) =>
          (Len(trace') = 1 /\ pc' = "CloseSession" /\ result' = "ERROR")
     /\ (Len(trace') = 1 /\ ThresholdBalanceEvent(trace'[1])) =>
          (pc' = "GetChargeLogThis" /\ result' = "none")
     /\ (pc = "Evaluate" /\ LowBalance(lastBalance)) =>
          /\ result = "ERROR"
          /\ pc' = IF attempt < MAX_RETRIES THEN "Sleeping" ELSE "LoopHead"
     /\ pc' \in {"Succeeded", "Skipped"} => ~LowBalance(lastBalance')]_vars

\* The second attempt found 50 on the account and the controller sleeps
\* before the third.
C15_Witness ==
  /\ pc = "Sleeping"
  /\ attempt = 2
  /\ lastBalance = IntV(50)

\* C16: the history is fetched for the month of the current date, and also
\* for the month before it exactly when the day of the month is 1, 2 or 3;
\* the month before January is December of the year before; and the list
\* handed on holds the records of the current month first and those of the
\* month before after them.
HistoryCalls == {i \in DOMAIN trace : trace[i].ev = "fetch_history"}
C16_MonthsFetched ==
  \A i \in HistoryCalls :
    LET e == trace[i]
        d == DateOfDay(e.now \div MinutesPerDay)
        current == d.year * 100 + d.month
        previous == IF d.month = 1 THEN (d.year - 1) * 100 + 12
                    ELSE d.year * 100 + d.month - 1
    IN IF d.day \in {1, 2, 3}
       THEN e.terms = <<current, previous>> /\ e.logs = e.this \o e.last
       ELSE e.terms = <<current>> /\ e.logs = e.this

\* On a third of January the month before is December of the year before,
\* and both months delivered records.
C16_Witness ==
  \E i \in HistoryCalls :
    /\ trace[i].terms = <<202701, 202612>>
    /\ DateOfDay(trace[i].now \div MinutesPerDay).day = 3
    /\ trace[i].logs = <<RecA, RecB, RecC>>

\* C17: the run is one flow of control: a step makes at most one call, and
\* a session is open exactly while an attempt runs.  A session is opened
\* only by the start of a new attempt, when no session is open (the one of
\* the attempt before is closed, never used again), and it is closed before
\* the controller looks at the outcome, so that none is open during the
\* retry sleep or in a terminal state.
C17_OneSessionPerAttempt ==
  [][/\ (session' = "open") = (pc' \in AttemptPcs)
     /\ Len(trace') <= Len(trace) + 1
     /\ Len(trace') > Len(trace) => session = "open" /\ session' = "open"
     /\ (session' = "open" /\ session # "open") =>
          (attempt' = attempt + 1 /\ trace' = <<>> /\ pc = "LoopHead")
     /\ attempt' # attempt =>
          (attempt' = attempt + 1 /\ session # "open" /\ session' = "open")
     /\ pc' \in {"Evaluate", "Sleeping", "Succeeded", "Skipped", "Exhausted"} =>
          session' = "closed"]_vars

\* The second attempt is over and its session closed; the controller sleeps.
C17_Witness ==
  /\ pc = "Sleeping"
  /\ attempt = 2
  /\ session = "closed"
  /\ sleeps = 1

\* C18 as stated: for every instant and every configured start and end time
\* of day, the window has start < end, its start is on yesterday's date and
\* its end on today's date (so that it contains today's midnight), and
\* end - start is at most 25 hours.
WindowCalls == {i \in DOMAIN trace : trace[i].ev = "window"}
Midnight(t) == AtMs(t \div MinutesPerDay, 0, 0)
DayMs == MinutesPerDay * MsPerMinute
BracketsMidnight(e) ==
  /\ e.start < e.end
  /\ Midnight(e.now) - DayMs <= e.start /\ e.start < Midnight(e.now)
  /\ Midnight(e.now) <= e.end /\ e.end < Midnight(e.now) + DayMs
C18_WindowWithin25Hours ==
  \A i \in WindowCalls :
    /\ BracketsMidnight(trace[i])
    /\ trace[i].end - trace[i].start <= 25 * 60 * MsPerMinute

\* C18 amended: for every instant and every configured start and end time
\* of day, the window has start < end, its start is on yesterday's date and
\* its end on today's date, and end - start is 24 hours plus the difference
\* between the end time of day and the start time of day: more than 0 and
\* less than 48 hours, and at most 25 hours exactly when the end time of day
\* is no more than one hour after the start time of day.
C18_WindowBracketsMidnight ==
  \A i \in WindowCalls :
    LET e == trace[i]
        startOfDay == e.sh * 60 + e.sm
        endOfDay == e.eh * 60 + e.em
    IN /\ BracketsMidnight(e)
       /\ e.end - e.start = (MinutesPerDay + endOfDay - startOfDay) * MsPerMinute
       /\ 0 < e.end - e.start /\ e.end - e.start < 2 * DayMs
       /\ (e.end - e.start <= 25 * 60 * MsPerMinute) = (endOfDay <= startOfDay + 60)

\* On the first of January, with 23:45 and 00:15 configured, the window runs
\* from Dec 31 23:45 to Jan 1 00:15.
C18_Witness ==
  \E i \in WindowCalls :
    /\ trace[i].now \div MinutesPerDay = 2
    /\ trace[i].sh = 23 /\ trace[i].sm = 45 /\ trace[i].eh = 0 /\ trace[i].em = 15
    /\ trace[i].start = AtMs(1, 23, 45)
    /\ trace[i].end = AtMs(2, 0, 15)

\* C19: an attempt makes at most one token request (a begin-charge call
\* without msgflag) and at most one finalizing call (one with msgflag), and
\* the token request comes first; there are at most MAX_RETRIES attempts, so
\* at most three calls of each kind in a run; and at most one finalizing
\* call of the run is answered with success: it ends its attempt in SUCCESS,
\* no attempt before it ended in SUCCESS, and none follows it.
TokenRequests == {i \in BeginIdx : trace[i].params.msgflag = NoneV}
FinalCalls == {i \in BeginIdx : trace[i].params.msgflag # NoneV}
SuccessfulFinalCalls ==
  {i \in FinalCalls : trace[i].resp.kind = "json" /\ trace[i].resp.success}
SuccessfulAttempts == {i \in DOMAIN outcomes : outcomes[i] = "SUCCESS"}
C19_AtMostOneChargeStarted ==
  /\ Cardinality(TokenRequests) <= 1
  /\ Cardinality(FinalCalls) <= 1
  /\ \A i \in TokenRequests, j \in FinalCalls : i < j
  /\ attempt <= MAX_RETRIES /\ Len(outcomes) <= attempt
  /\ BeginIdx # {} => attempt = Len(outcomes) + 1
  /\ Cardinality(SuccessfulAttempts) + Cardinality(SuccessfulFinalCalls) <= 1
  /\ SuccessfulFinalCalls # {} => (pc = "CloseSession" /\ result = "SUCCESS")
  /\ \A i \in SuccessfulAttempts :
       i = Len(outcomes) /\ i = attempt /\ pc \in {"Evaluate", "Succeeded"}

\* After two failed attempts the finalizing call of the third is answered
\* with success.
C19_Witness ==
  /\ attempt = MAX_RETRIES
  /\ Len(outcomes) = MAX_RETRIES - 1
  /\ Cardinality(TokenRequests) = 1
  /\ SuccessfulFinalCalls # {}

\* C20: when the two readings of the clock in an attempt, the one before the
\* history is fetched and the one the matcher takes, fall on the same civil
\* date, the month of the start of the window and the month of its end are
\* both among the months whose history the attempt asked for.  Stated of the
\* state in which the matcher has just returned: the call is then the last
\* entry of the attempt's trace.
MonthOfMs(ms) == Term(DateOfDay(ms \div DayMs))
TermsFetched == {trace[i].term : i \in EvIdx("getChargeLog")}
C20_WindowMonthsFetched ==
  LET m == Len(trace)
  IN (/\ m \in MatcherCalls
      /\ now \div MinutesPerDay = trace[m].now \div MinutesPerDay) =>
       /\ MonthOfMs(WindowStart(Now(trace[m].now))) \in TermsFetched
       /\ MonthOfMs(WindowEnd(Now(trace[m].now))) \in TermsFetched

\* On the first of January the window starts in December of the year before
\* and ends in January; both months were asked for, and the record found
\* ended on Dec 31 at 23:45.
C20_Witness ==
  \E m \in MatcherCalls :
    /\ now \div MinutesPerDay = 2
    /\ trace[m].now \div MinutesPerDay = 2
    /\ TermsFetched = {202601, 202512}
    /\ trace[m].ret > 0
    /\ trace[m].logs[trace[m].ret].enddt = IntV(AtMs(1, 23, 45))

====
